---------------------------- MODULE Spec2Model ----------------------------
(***************************************************************************)
(* FreshTrack Analytics (src/app.py): reconciliation of an expense log     *)
(* against a price list, the quick filter over the reconciled table, and   *)
(* the Streamlit script that drives both.                                  *)
(*                                                                         *)
(* Hebrew column headers and status labels are transliterated:             *)
(*   taarich = date, mkt = SKU, prit = item, mechiron = list price,        *)
(*   mechir (lifney maam) = actual price (before VAT), lakoach = client,   *)
(*   teuda = document, aspaka = delivery, kamut = quantity,                *)
(*   paar mechir = price delta, stiyat mechir = signed delta text.         *)
(* pandas semantics assumed are those of pandas 2.x.                       *)
(***************************************************************************)
EXTENDS Integers, Sequences, FiniteSets, TLC

VARIABLES
    pricing_file,   \* st.file_uploader(key="pricing"): NoFile or an upload
    expense_file,   \* st.file_uploader(key="expense"): NoFile or an upload
    screen,         \* what the last script run rendered
    lastEvent       \* the user event that triggered the last script run

vars == <<pricing_file, expense_file, screen, lastEvent>>

-----------------------------------------------------------------------------
(* Spreadsheet cells.  Every cell is a record of the same shape so that    *)
(* any two cells can be compared.                                          *)

Null == [k |-> "null", n |-> 0, s |-> ""]               \* NaN / NaT / empty
Num(x) == [k |-> "num", n |-> x, s |-> ""]              \* numeric cell
Text(t) == [k |-> "text", n |-> 0, s |-> t]             \* string cell
Date(ymd) == [k |-> "date", n |-> ymd, s |-> ""]        \* Timestamp yyyymmdd

isna(c) == c.k = "null"                                  \* pd.isna

\* Column headers
TAARICH == "taarich"
MKT == "mkt"
MKT_QUOTE == "mk\"t"
MKT_GERSHAYIM == "mk''t"
MKT_GERESH == "mk't"
PRIT == "prit"
MECHIRON == "mechiron"
LAKOACH == "lakoach"
TEUDA == "teuda"
ASPAKA == "aspaka"
STATUS == "status"
PAAR_MECHIR == "paar mechir"
STIYAT_MECHIR == "stiyat mechir"

\* Status labels
MATCH == "MATCH"
PRICE_MISMATCH == "PRICE_MISMATCH"
MISSING_FROM_PRICELIST == "MISSING_FROM_PRICELIST"
ACTUAL_PRICE_MISSING == "ACTUAL_PRICE_MISSING"

\* The ordered candidates for the actual-price column (line 60)
PriceCandidates ==
    <<"mechir lifney maam", "mechir lifney maam (gershayim)",
      "mechir_lifney_maam", "mechir">>

-----------------------------------------------------------------------------
(* Sequence helpers *)

RECURSIVE Flatten(_)
Flatten(ss) == IF ss = <<>> THEN <<>> ELSE Head(ss) \o Flatten(Tail(ss))

Range(f) == {f[i] : i \in DOMAIN f}

RECURSIVE FirstIn(_, _)
\* next((c for c in cands if c in cols), None); "" stands for None
FirstIn(cands, cols) ==
    IF cands = <<>> THEN ""
    ELSE IF Head(cands) \in cols THEN Head(cands) ELSE FirstIn(Tail(cands), cols)

-----------------------------------------------------------------------------
(* pd.to_datetime(col, errors='coerce'), cell by cell *)

\* The date strings the expense log may carry and what they parse to;
\* any other string fails to parse.
ParseDateString(s) ==
    CASE s = "2023-06-15" -> Date(20230615)
      [] s = "2024-06-03" -> Date(20240603)
      [] s = "2024-07-01" -> Date(20240701)
      [] OTHER -> Null

to_datetime(c) ==
    CASE c.k = "date" -> c
      [] c.k = "text" -> ParseDateString(c.s)
      [] c.k = "num"  -> Date(19700101)      \* integers are epoch offsets
      [] OTHER -> Null

\* Timestamp.month; NaT has none (0 never equals a month)
dt_month(c) == IF c.k = "date" THEN (c.n \div 100) % 100 ELSE 0

-----------------------------------------------------------------------------
(* DataFrames: [cols: set of headers, rows: sequence of [index, c]] where   *)
(* index is the pandas row label and c maps each header to the row's cell.  *)

\* df[mask]: the rows a row-wise mask selects (given as `rows`, a
\* SelectSeq of df.rows), in order and with their labels
BoolIndex(df, rows) == [df EXCEPT !.rows = rows]

\* A fresh RangeIndex 0..n-1 over the given cell maps
Reindexed(cells) == [i \in 1..Len(cells) |-> [index |-> i - 1, c |-> cells[i]]]

\* pd.read_excel on a readable expense upload
read_expenses(f) == [cols |-> f.cols, rows |-> Reindexed(f.rows)]

\* pd.read_excel on a readable price-list upload followed by
\* pricing_df.columns = ['mkt', 'prit', 'mechiron'] (line 50); the caller
\* checks the column count first
read_pricing(f) ==
    [cols |-> {MKT, PRIT, MECHIRON},
     rows |-> Reindexed([i \in 1..Len(f.rows) |->
                 [h \in {MKT, PRIT, MECHIRON} |->
                     CASE h = MKT -> f.rows[i][1]
                       [] h = PRIT -> f.rows[i][2]
                       [] OTHER -> f.rows[i][3]]])]

\* A variant that compares year and month instead of the month alone
MonthFilter_one_year(df, month) ==
    LET coerced == [df EXCEPT !.rows =
                      [i \in DOMAIN df.rows |->
                         [df.rows[i] EXCEPT !.c[TAARICH] = to_datetime(@)]]]
    IN  BoolIndex(coerced, SelectSeq(coerced.rows, LAMBDA r : r.c[TAARICH].n \div 100 = 202400 + month))

\* Lines 56-57: coerce the date column, keep the rows of the target month
MonthFilter(df, month) ==
    LET coerced == [df EXCEPT !.rows =
                      [i \in DOMAIN df.rows |->
                         [df.rows[i] EXCEPT !.c[TAARICH] = to_datetime(@)]]]
    IN  BoolIndex(coerced, SelectSeq(coerced.rows, LAMBDA r : dt_month(r.c[TAARICH]) = month))

\* Line 70: expenses_df.merge(pricing_df, on='mkt', how='left',
\*                           suffixes=('_expenses', '_pricing'))
LeftName(c, left, right) ==
    IF c # MKT /\ c \in right.cols THEN c \o "_expenses" ELSE c
RightName(c, left, right) ==
    IF c \in left.cols THEN c \o "_pricing" ELSE c

MergedCols(left, right) ==
    {LeftName(c, left, right) : c \in left.cols}
        \cup {RightName(c, left, right) : c \in right.cols \ {MKT}}

\* The cell maps one left row contributes: one per matching right row, in
\* the right table's order, or a single one padded with nulls
MatchesOf(l, left, right) ==
    LET hits == SelectSeq(right.rows, LAMBDA r : r.c[MKT] = l.c[MKT])
        Joined(r, found) ==
            [h \in MergedCols(left, right) |->
                IF \E c \in left.cols : LeftName(c, left, right) = h
                THEN l.c[CHOOSE c \in left.cols : LeftName(c, left, right) = h]
                ELSE IF found
                     THEN r.c[CHOOSE c \in right.cols \ {MKT} :
                                  RightName(c, left, right) = h]
                     ELSE Null]
    IN  IF hits = <<>> THEN <<Joined(l, FALSE)>>
        ELSE [j \in 1..Len(hits) |-> Joined(hits[j], TRUE)]

\* A variant joining how='inner': unmatched left rows are dropped
merge_inner(left, right) ==
    [cols |-> MergedCols(left, right),
     rows |-> Reindexed(Flatten([i \in 1..Len(left.rows) |->
        IF \E r \in Range(right.rows) : r.c[MKT] = left.rows[i].c[MKT]
        THEN MatchesOf(left.rows[i], left, right) ELSE <<>>]))]

merge(left, right) ==
    [cols |-> MergedCols(left, right),
     rows |-> Reindexed(Flatten([i \in 1..Len(left.rows) |->
                                    MatchesOf(left.rows[i], left, right)]))]

-----------------------------------------------------------------------------
(* compare_files (lines 44-124) *)

\* Arithmetic between two cells is defined for numbers only; Python raises
\* TypeError when a string takes part
BothPresent(a, b) == ~isna(a) /\ ~isna(b)
RaisesTypeError(a, b) == BothPresent(a, b) /\ (a.k # "num" \/ b.k # "num")

\* A variant that tests the actual price before the list price
status_row_actual_first(row, price_col) ==
    LET p_list == row[MECHIRON]
        p_actual == row[price_col]
    IN  IF isna(p_actual) THEN ACTUAL_PRICE_MISSING
        ELSE IF isna(p_list) THEN MISSING_FROM_PRICELIST
        ELSE IF p_list.n = p_actual.n THEN MATCH ELSE PRICE_MISMATCH

\* Lines 73-80
status_row(row, price_col) ==
    LET p_list == row[MECHIRON]
        p_actual == row[price_col]
    IN  IF isna(p_list) THEN MISSING_FROM_PRICELIST
        ELSE IF isna(p_actual) THEN ACTUAL_PRICE_MISSING
        ELSE LET d == p_list.n - p_actual.n
                 abs == IF d < 0 THEN -d ELSE d
             IN  IF abs <= 0 THEN MATCH ELSE PRICE_MISMATCH

\* A variant with the operands exchanged
price_gap_reversed(row, price_col) ==
    IF BothPresent(row[price_col], row[MECHIRON])
    THEN Num(row[MECHIRON].n - row[price_col].n)
    ELSE Null

\* Line 83, one element of merged[price_col] - merged['mechiron']: NaN when
\* either operand is NaN (for object columns pandas falls back to operating
\* on the non-missing pairs only)
price_gap(row, price_col) ==
    IF BothPresent(row[price_col], row[MECHIRON])
    THEN Num(row[price_col].n - row[MECHIRON].n)
    ELSE Null

\* Lines 35-40: "" for NaN, else the number with "+" when positive; the
\* digits are kept as the number, the sign prefix as the string
format_signed_number(x) ==
    IF isna(x) THEN Text("")
    ELSE [k |-> "signed", n |-> x.n, s |-> IF x.n > 0 THEN "+" ELSE ""]

\* Lines 82-84: the three derived columns
Classified(merged, price_col) ==
    [cols |-> merged.cols \cup {STATUS, PAAR_MECHIR, STIYAT_MECHIR},
     rows |-> [i \in DOMAIN merged.rows |->
        [index |-> merged.rows[i].index,
         c |-> [h \in merged.cols \cup {STATUS, PAAR_MECHIR, STIYAT_MECHIR} |->
                  CASE h = STATUS -> Text(status_row(merged.rows[i].c, price_col))
                    [] h = PAAR_MECHIR -> price_gap(merged.rows[i].c, price_col)
                    [] h = STIYAT_MECHIR ->
                         format_signed_number(price_gap(merged.rows[i].c, price_col))
                    [] OTHER -> merged.rows[i].c[h]]]]]

\* Line 86
ProdCol(cols) ==
    IF PRIT \o "_expenses" \in cols THEN PRIT \o "_expenses"
    ELSE IF PRIT \in cols THEN PRIT ELSE ""

EmptyDf == [cols |-> {}, rows |-> <<>>]
Raise(msg) ==
    [ok |-> FALSE, err |-> msg, ordered |-> EmptyDf, price_col |-> "", prod_col |-> ""]

\* The target month the script passes (line 158)
TargetMonth == 6

\* Lines 44-124.  The result is either an exception (ok = FALSE, err the
\* message) or the returned tuple; excel_full is the workbook of `ordered`
\* and carries no state of its own.
compare_files(pf, ef, month) ==
    IF ~pf.ok \/ ~ef.ok THEN Raise("read_excel failed")
    ELSE IF pf.ncols # 3 THEN Raise("Length mismatch")
    ELSE IF TAARICH \notin ef.cols THEN Raise("missing taarich")
    ELSE
    LET pricing_df == read_pricing(pf)
        expenses_df == MonthFilter(read_expenses(ef), month)
        price_col == FirstIn(PriceCandidates, expenses_df.cols)
    IN  IF price_col = "" THEN Raise("missing mechir lifney maam")
        ELSE IF MKT \notin expenses_df.cols THEN Raise("missing mkt")
        ELSE
        LET merged == merge(expenses_df, pricing_df)
        IN  IF MECHIRON \notin merged.cols THEN Raise("KeyError mechiron")
            ELSE IF \E i \in DOMAIN merged.rows :
                       RaisesTypeError(merged.rows[i].c[MECHIRON],
                                       merged.rows[i].c[price_col])
                 THEN Raise("TypeError unsupported operand")
            ELSE [ok |-> TRUE, err |-> "",
                  ordered |-> Classified(merged, price_col),
                  price_col |-> price_col,
                  prod_col |-> ProdCol(merged.cols)]

\* Lines 128-151: the discrepancy lines, or the fixed sentence when the
\* table holds no mismatch (an empty list of lines, nodiff = TRUE)
build_message(df, price_col, prod_col) ==
    LET diffs == BoolIndex(df, SelectSeq(df.rows, LAMBDA r :
                     r.c[STATUS] = Text(PRICE_MISMATCH)))
    IN  [nodiff |-> diffs.rows = <<>>,
         lines |-> [i \in DOMAIN diffs.rows |->
                      [prod |-> IF prod_col # "" /\ prod_col \in diffs.cols
                                THEN diffs.rows[i].c[prod_col] ELSE Text(""),
                       list_price |-> diffs.rows[i].c[MECHIRON],
                       actual |-> diffs.rows[i].c[price_col]]]]

-----------------------------------------------------------------------------
(* Strings *)

\* Series.astype(str), one cell
astype_str(c) ==
    CASE c.k = "text" -> c.s
      [] c.k = "null" -> "nan"
      [] OTHER -> ToString(c.n)

\* str.lower over the letters the tables use
LowerChar(ch) ==
    CASE ch = "A" -> "a" [] ch = "F" -> "f" [] ch = "G" -> "g"
      [] ch = "I" -> "i" [] ch = "P" -> "p" [] ch = "E" -> "e"
      [] OTHER -> ch

RECURSIVE str_lower(_)
str_lower(str) ==
    IF Len(str) = 0 THEN ""
    ELSE LowerChar(SubSeq(str, 1, 1)) \o str_lower(SubSeq(str, 2, Len(str)))

RECURSIVE str_strip(_)
\* str.strip(): leading and trailing blanks removed
str_strip(str) ==
    IF Len(str) = 0 THEN ""
    ELSE IF SubSeq(str, 1, 1) = " " THEN str_strip(SubSeq(str, 2, Len(str)))
    ELSE IF SubSeq(str, Len(str), Len(str)) = " "
         THEN str_strip(SubSeq(str, 1, Len(str) - 1))
    ELSE str

\* Series.str.contains(pat, case=False, na=False) for a literal pattern
str_contains(hay, pat) ==
    LET h == str_lower(hay)
        q == str_lower(pat)
    IN  \E i \in 1..(Len(h) - Len(q) + 1) : SubSeq(h, i, i + Len(q) - 1) = q

-----------------------------------------------------------------------------
(* The quick filter (lines 162-227).  w holds the values the widgets        *)
(* return: clients, docs, statuses, serials (multiselects), date_range and  *)
(* sup_range (date inputs) and query (text input).                          *)

\* A date input's value: left at its default (the pair min, max the script
\* passes), a single date (a range being picked), or a pair
DefaultRange == [mode |-> "default", lo |-> 0, hi |-> 0]
OneDate(d) == [mode |-> "one", lo |-> d, hi |-> d]
Pair(lo, hi) == [mode |-> "pair", lo |-> lo, hi |-> hi]

DefaultWidgets ==
    [clients |-> {}, docs |-> {}, statuses |-> {}, date_range |-> DefaultRange,
     sup_range |-> DefaultRange, serials |-> {}, query |-> ""]

\* sorted(df[col].dropna().astype(str).unique().tolist())
Options(df, col) ==
    IF col \in df.cols
    THEN {astype_str(r.c[col]) : r \in {x \in Range(df.rows) : ~isna(x.c[col])}}
    ELSE {}

\* df[df[col].astype(str).isin(chosen)] when something is chosen
IsinFilter(df, col, chosen) ==
    IF col \in df.cols /\ chosen # {}
    THEN BoolIndex(df, SelectSeq(df.rows, LAMBDA r : astype_str(r.c[col]) \in chosen))
    ELSE df

\* Whether the date input for col is rendered: the column exists and is
\* not all NaT (lines 195-196, 205-208)
HasDates(df, col) ==
    col \in df.cols /\ \E r \in Range(df.rows) : ~isna(r.c[col])

ColMin(df, col) ==
    LET ds == {r.c[col].n : r \in {x \in Range(df.rows) : ~isna(x.c[col])}}
    IN  CHOOSE d \in ds : \A e \in ds : d <= e
ColMax(df, col) ==
    LET ds == {r.c[col].n : r \in {x \in Range(df.rows) : ~isna(x.c[col])}}
    IN  CHOOSE d \in ds : \A e \in ds : d >= e

\* Lines 197-202 and 209-214: the value the date input returns and the
\* range mask; a NaT never satisfies a comparison
RangeFilter(df, col, range) ==
    IF ~HasDates(df, col) \/ range.mode = "one" THEN df
    ELSE LET start_date == IF range.mode = "default" THEN ColMin(df, col)
                           ELSE range.lo
             end_date == IF range.mode = "default" THEN ColMax(df, col)
                         ELSE range.hi
         IN  BoolIndex(df, SelectSeq(df.rows, LAMBDA r :
                                      /\ ~isna(r.c[col])
                                      /\ r.c[col].n >= start_date
                                      /\ r.c[col].n <= end_date))

\* Lines 206-207: df_filtered['aspaka'] = pd.to_datetime(..., errors='coerce')
CoerceSupply(df) ==
    IF ASPAKA \notin df.cols THEN df
    ELSE [df EXCEPT !.rows =
            [i \in DOMAIN df.rows |->
                [df.rows[i] EXCEPT !.c[ASPAKA] = to_datetime(@)]]]

\* Lines 165-167
SerialCol(df) == FirstIn(<<MKT, MKT_GERSHAYIM, MKT_GERESH>>, df.cols)
ProdDisplayCol(df, product_col) ==
    IF product_col # "" /\ product_col \in df.cols THEN product_col
    ELSE IF PRIT \in df.cols THEN PRIT ELSE ""

\* The filter, stage by stage, each stage on the previous one's result
ByClient(df, w) == IsinFilter(df, LAKOACH, w.clients)
ByDoc(df, w) == IsinFilter(ByClient(df, w), TEUDA, w.docs)
ByStatus(df, w) == IsinFilter(ByDoc(df, w), STATUS, w.statuses)
ByDate(df, w) == RangeFilter(ByStatus(df, w), TAARICH, w.date_range)
BySupply(df, w) == RangeFilter(CoerceSupply(ByDate(df, w)), ASPAKA, w.sup_range)
BySerial(df, w) ==
    IF SerialCol(df) = "" THEN BySupply(df, w)
    ELSE IsinFilter(BySupply(df, w), SerialCol(df), w.serials)
ByQuery(df, w, product_col) ==
    LET prev == BySerial(df, w)
        col == ProdDisplayCol(df, product_col)
    IN  IF col = "" \/ str_strip(w.query) = "" THEN prev
        ELSE BoolIndex(prev, SelectSeq(prev.rows, LAMBDA r :
                 str_contains(astype_str(r.c[col]), str_strip(w.query))))

QuickFilter(result_df, w, product_col) == ByQuery(result_df, w, product_col)

\* The values the widgets can return in one run: a multiselect returns a
\* subset of its options, a widget that is not rendered returns nothing
WidgetsValid(df, w, product_col) ==
    /\ w.clients \subseteq Options(df, LAKOACH)
    /\ w.docs \subseteq Options(ByClient(df, w), TEUDA)
    /\ w.statuses \subseteq Options(ByDoc(df, w), STATUS)
    /\ (~HasDates(ByStatus(df, w), TAARICH) => w.date_range = DefaultRange)
    /\ (~HasDates(CoerceSupply(ByDate(df, w)), ASPAKA)
            => w.sup_range = DefaultRange)
    /\ w.serials \subseteq Options(BySupply(df, w), SerialCol(df))
    /\ (ProdDisplayCol(df, product_col) = "" => w.query = "")

-----------------------------------------------------------------------------
(* The script (lines 155-285).  Streamlit runs it top to bottom on every    *)
(* user event; st.button returns True only in the run its click triggered,  *)
(* and a run renders nothing but what it executes.                          *)

NoPricing == [present |-> FALSE, ok |-> FALSE, ncols |-> 0, rows |-> <<>>]
NoExpense == [present |-> FALSE, ok |-> FALSE, cols |-> {}, rows |-> <<>>]

Blank ==
    [view |-> "info", error |-> "", result_df |-> EmptyDf,
     df_filtered |-> EmptyDf, widgets |-> DefaultWidgets, downloads |-> {},
     message |-> [shown |-> FALSE, nodiff |-> FALSE, lines |-> <<>>]]

\* Lines 158-280 once compare_files has returned r: the filtered table,
\* the row count, both downloads and the message template
ResultsScreen(r, w) ==
    LET df_filtered == QuickFilter(r.ordered, w, r.prod_col)
        msg == build_message(df_filtered, r.price_col, r.prod_col)
    IN  [view |-> "results", error |-> "", result_df |-> r.ordered,
         df_filtered |-> df_filtered, widgets |-> w,
         downloads |-> {"comparison.xlsx", "comparison_filtered.xlsx"},
         message |-> [shown |-> TRUE, nodiff |-> msg.nodiff, lines |-> msg.lines]]

\* One run of the script: clicked is st.button's value, w the values the
\* filter widgets return in this run
RunScript(pf, ef, clicked, w) ==
    IF ~(pf.present /\ ef.present) THEN Blank
    ELSE IF ~clicked THEN [Blank EXCEPT !.view = "button"]
    ELSE LET r == compare_files(pf, ef, TargetMonth)
         IN  IF r.ok THEN ResultsScreen(r, w)
             ELSE [Blank EXCEPT !.view = "error", !.error = r.err]

-----------------------------------------------------------------------------
(* Uploads *)

BoundedSeq(S, n) == UNION {[1..k -> S] : k \in 0..n}

MECHIR_LIFNEY_MAAM == PriceCandidates[1]
MECHIR == PriceCandidates[4]

\* An expense-log row over the headers cols
ExpenseRow(cols, date, sku, item, price, client, doc, sup) ==
    [h \in cols |->
        CASE h = TAARICH -> date
          [] h \in {MKT, MKT_QUOTE, MKT_GERSHAYIM, MKT_GERESH} -> sku
          [] h = PRIT -> item
          [] h \in Range(PriceCandidates) -> price
          [] h = LAKOACH -> client
          [] h = TEUDA -> doc
          [] h = ASPAKA -> sup
          [] OTHER -> Null]

ExpenseUpload(cols, rows) ==
    [present |-> TRUE, ok |-> TRUE, cols |-> cols, rows |-> rows]
PricingUpload(ncols, rows) ==
    [present |-> TRUE, ok |-> TRUE, ncols |-> ncols, rows |-> rows]
CorruptExpense == [present |-> TRUE, ok |-> FALSE, cols |-> {}, rows |-> <<>>]
CorruptPricing == [present |-> TRUE, ok |-> FALSE, ncols |-> 0, rows |-> <<>>]

MaxExpenseRows == 2
MaxPriceRows == 2

\* Inputs of the reconciliation.  Expense rows: every date (two Junes, one
\* of them a string, a July and an unparseable one) with a numeric price,
\* every actual price (missing, equal, different, textual) on a June date,
\* and a July row with a textual price.  List prices: missing, numeric and
\* textual for SKU 1, numeric for SKU 2.
CompareCols == {TAARICH, MKT, PRIT, MECHIR_LIFNEY_MAAM}
CompareDates == {Date(20240603), Text("2023-06-15"), Text("2024-07-01"), Text("n/a")}
CompareSkus == {Text("1"), Text("2")}
ActualPrices == {Null, Num(10), Num(12), Text("abc")}

CompareExpenseRows ==
    {ExpenseRow(CompareCols, d, k, Text("Fig"), Num(10), Null, Null, Null) :
        d \in CompareDates, k \in CompareSkus}
    \cup {ExpenseRow(CompareCols, Date(20240603), k, Text("Fig"), a, Null, Null, Null) :
        k \in CompareSkus, a \in ActualPrices}
    \cup {ExpenseRow(CompareCols, Text("2024-07-01"), Text("1"), Text("Fig"),
                     Text("abc"), Null, Null, Null)}
ComparePriceRows ==
    {<<Text("1"), Text("Fig"), p>> : p \in {Null, Num(10), Text("abc")}}
    \cup {<<Text("2"), Text("Fig"), Num(10)>>}

CompareExpenseFiles ==
    {ExpenseUpload(CompareCols, rows) :
        rows \in BoundedSeq(CompareExpenseRows, MaxExpenseRows)}
ComparePricingFiles ==
    {PricingUpload(3, rows) : rows \in BoundedSeq(ComparePriceRows, MaxPriceRows)}

MaxAppRows == 2
MaxFilterRows == 3
MaxActive == 2

\* Uploads of the application runs: unreadable files, a price list of two
\* columns, expense logs with and without the date, price and optional
\* columns and with the SKU header in each spelling, one or more rows of
\* June and July with numeric and textual prices and with and without a
\* delivery date
AppCols(has_date, sku_header, price_header, optional) ==
    (IF has_date THEN {TAARICH} ELSE {}) \cup {sku_header, PRIT}
        \cup (IF price_header # "" THEN {price_header} ELSE {})
        \cup (IF optional THEN {LAKOACH, TEUDA, ASPAKA} ELSE {})
AppRows(cols) ==
    {ExpenseRow(cols, d, Text("1"), Text("Fig"), a, Text("A"), Text("T1"), sup) :
        d \in {Date(20240603), Text("2024-07-01")},
        a \in {Num(12), Text("abc")},
        sup \in {Null, Date(20240603)}}
AppExpenseFiles ==
    {CorruptExpense} \cup
    UNION {{ExpenseUpload(AppCols(d, k, p, o), rows) :
                rows \in BoundedSeq(AppRows(AppCols(d, k, p, o)), MaxAppRows) \ {<<>>}} :
            d \in BOOLEAN, k \in {MKT, MKT_QUOTE, MKT_GERSHAYIM, MKT_GERESH},
            p \in {MECHIR_LIFNEY_MAAM, MECHIR, ""}, o \in BOOLEAN}
AppPricingFiles ==
    {CorruptPricing, PricingUpload(2, <<>>), PricingUpload(3, <<>>),
     PricingUpload(3, <<<<Text("1"), Text("Fig"), Num(10)>>>>)}

\* Uploads for the quick filter: June rows of two kinds (date, SKU, item,
\* price and document go together), each with either client; the delivery
\* date is missing or valid in the first kind, unparseable or valid in the
\* second
FilterCols == CompareCols \cup {LAKOACH, TEUDA, ASPAKA}
FilterRows ==
    {ExpenseRow(FilterCols, Date(20240603), Text("1"), Text("Fig"), Num(10),
                cl, Text("T1"), sup) :
        cl \in {Text("A"), Text("B")}, sup \in {Null, Date(20240603)}}
    \cup {ExpenseRow(FilterCols, Date(20240610), Text("2"), Text("Pea"), Num(12),
                     cl, Text("T2"), sup) :
        cl \in {Text("A"), Text("B")}, sup \in {Text("n/a"), Date(20240610)}}
FilterExpenseFiles ==
    {ExpenseUpload(FilterCols, rows) : rows \in BoundedSeq(FilterRows, MaxFilterRows)}
FilterPricingFile ==
    PricingUpload(3, <<<<Text("1"), Text("Fig"), Num(10)>>,
                       <<Text("2"), Text("Pea"), Num(10)>>>>)

\* What the user can enter in a date input and in the search box
FilterDates == {20240603, 20240610}
RangeChoices ==
    {OneDate(d) : d \in FilterDates}
        \cup {Pair(p[1], p[2]) : p \in {q \in FilterDates \X FilterDates : q[1] <= q[2]}}
Queries == {"fi", "PE", " "}

\* The widget values that differ from w in one widget, which w leaves at
\* its default
Mods(df, w) ==
    {[w EXCEPT !.clients = x] :
        x \in IF w.clients = {} THEN SUBSET Options(df, LAKOACH) \ {{}} ELSE {}}
    \cup {[w EXCEPT !.docs = x] :
        x \in IF w.docs = {} THEN SUBSET Options(df, TEUDA) \ {{}} ELSE {}}
    \cup {[w EXCEPT !.statuses = x] :
        x \in IF w.statuses = {} THEN SUBSET Options(df, STATUS) \ {{}} ELSE {}}
    \cup {[w EXCEPT !.date_range = x] :
        x \in IF w.date_range = DefaultRange THEN RangeChoices ELSE {}}
    \cup {[w EXCEPT !.sup_range = x] :
        x \in IF w.sup_range = DefaultRange THEN RangeChoices ELSE {}}
    \cup {[w EXCEPT !.serials = x] :
        x \in IF w.serials = {} THEN SUBSET Options(df, SerialCol(df)) \ {{}} ELSE {}}
    \cup {[w EXCEPT !.query = x] : x \in IF w.query = "" THEN Queries ELSE {}}

RECURSIVE WidgetChoices(_, _)
\* The widget values with at most k widgets off their defaults
WidgetChoices(df, k) ==
    IF k = 0 THEN {DefaultWidgets}
    ELSE LET prev == WidgetChoices(df, k - 1)
         IN  prev \cup UNION {Mods(df, w) : w \in prev}

-----------------------------------------------------------------------------
(* Events *)

Event(type, w) == [type |-> type, w |-> w]

\* The "compare" button is clicked (line 156): the block under it runs with
\* freshly created filter widgets, which return their defaults
ClickCompare ==
    /\ pricing_file.present /\ expense_file.present
    /\ screen' = RunScript(pricing_file, expense_file, TRUE, DefaultWidgets)
    /\ lastEvent' = Event("compare", DefaultWidgets)
    /\ UNCHANGED <<pricing_file, expense_file>>

\* A file is put into an empty uploader: the script reruns, st.button
\* returns False
UploadPricing ==
    /\ ~pricing_file.present
    /\ \E f \in AppPricingFiles :
          /\ pricing_file' = f
          /\ screen' = RunScript(f, expense_file, FALSE, DefaultWidgets)
    /\ lastEvent' = Event("upload", DefaultWidgets)
    /\ UNCHANGED expense_file

UploadExpense ==
    /\ ~expense_file.present
    /\ \E f \in AppExpenseFiles :
          /\ expense_file' = f
          /\ screen' = RunScript(pricing_file, f, FALSE, DefaultWidgets)
    /\ lastEvent' = Event("upload", DefaultWidgets)
    /\ UNCHANGED pricing_file

\* A file is removed from its uploader: the script reruns (line 285)
RemovePricing ==
    /\ pricing_file.present
    /\ pricing_file' = NoPricing
    /\ screen' = RunScript(NoPricing, expense_file, FALSE, DefaultWidgets)
    /\ lastEvent' = Event("remove", DefaultWidgets)
    /\ UNCHANGED expense_file

RemoveExpense ==
    /\ expense_file.present
    /\ expense_file' = NoExpense
    /\ screen' = RunScript(pricing_file, NoExpense, FALSE, DefaultWidgets)
    /\ lastEvent' = Event("remove", DefaultWidgets)
    /\ UNCHANGED pricing_file

\* The user changes one filter widget of the displayed results to w: the
\* script reruns with st.button returning False, so the block under the
\* button (lines 157-283) is not executed
ChangeFilter ==
    /\ screen.view = "results"
    /\ \E w \in Mods(screen.result_df, screen.widgets) :
          /\ WidgetsValid(screen.result_df, w, ProdCol(screen.result_df.cols))
          /\ lastEvent' = Event("filter", w)
          /\ screen' = RunScript(pricing_file, expense_file, FALSE, w)
    /\ UNCHANGED <<pricing_file, expense_file>>

\* The block under the button executed with the filter widgets returning
\* w: the quick filter as a function of the table and the widget values
RunQuickFilter ==
    /\ screen.view = "button"
    /\ LET r == compare_files(pricing_file, expense_file, TargetMonth)
       IN  \E w \in WidgetChoices(r.ordered, MaxActive) :
              /\ r.ok
              /\ WidgetsValid(r.ordered, w, r.prod_col)
              /\ screen' = RunScript(pricing_file, expense_file, TRUE, w)
              /\ lastEvent' = Event("filter", w)
    /\ UNCHANGED <<pricing_file, expense_file>>

\* The reconciliation alone: both files are uploaded, the button is clicked
InitCompare ==
    /\ pricing_file \in ComparePricingFiles
    /\ expense_file \in CompareExpenseFiles
    /\ screen = RunScript(pricing_file, expense_file, FALSE, DefaultWidgets)
    /\ lastEvent = Event("upload", DefaultWidgets)

NextCompare == ClickCompare

SpecCompare == InitCompare /\ [][NextCompare]_vars

-----------------------------------------------------------------------------
(* Properties of the reconciliation, checked under SpecCompare *)

ResultRows == Range(screen.result_df.rows)
ActualCol == FirstIn(PriceCandidates, screen.result_df.cols)
HasStatus(st) == \E r \in ResultRows : r.c[STATUS] = Text(st)

\* The month-filtered expense rows and the price-list rows of the uploads,
\* stated on the raw cells: a date cell of month 6, or one of the date
\* strings of a June
RawInJune(c) ==
    \/ c.k = "date" /\ (c.n \div 100) % 100 = 6
    \/ c.k = "text" /\ c.s \in {"2023-06-15", "2024-06-03"}
JuneExpenses == SelectSeq(expense_file.rows, LAMBDA e : RawInJune(e[TAARICH]))
PriceMatches(sku) ==
    {j \in DOMAIN pricing_file.rows : pricing_file.rows[j][1] = sku}

\* C1: every reconciled row has the status that the first matching rule of
\* (list price null; actual price null; prices equal; otherwise) gives for
\* its two prices; so the status is "missing from price list" exactly when
\* the list price is null and "match" exactly when both are present and equal.
C1_StatusByPrices ==
    screen.view = "results" =>
        \A r \in ResultRows :
            LET e == r.c[MECHIRON]
                a == r.c[ActualCol]
                expected == CASE isna(e) -> MISSING_FROM_PRICELIST
                              [] ~isna(e) /\ isna(a) -> ACTUAL_PRICE_MISSING
                              [] ~isna(e) /\ ~isna(a) /\ a = e -> MATCH
                              [] OTHER -> PRICE_MISMATCH
            IN  /\ r.c[STATUS] = Text(expected)
                /\ (r.c[STATUS] = Text(MISSING_FROM_PRICELIST) <=> isna(e))
                /\ (r.c[STATUS] = Text(MATCH) <=> (BothPresent(a, e) /\ a = e))

C1_Witness ==
    /\ screen.view = "results"
    /\ HasStatus(MATCH) /\ HasStatus(ACTUAL_PRICE_MISSING)
    /\ \E r \in ResultRows :
          /\ isna(r.c[MECHIRON]) /\ isna(r.c[ActualCol])
          /\ r.c[STATUS] = Text(MISSING_FROM_PRICELIST)

\* C2: the reconciled table has at least as many rows as the month-filtered
\* expense table, and exactly as many iff every SKU of that table matches
\* at most one price-list row; every month-filtered expense row appears in
\* it and every SKU in it is the SKU of such a row.
C2_JoinCardinality ==
    screen.view = "results" =>
        /\ Len(screen.result_df.rows) >= Len(JuneExpenses)
        /\ (Len(screen.result_df.rows) = Len(JuneExpenses)
              <=> \A i \in DOMAIN JuneExpenses :
                      Cardinality(PriceMatches(JuneExpenses[i][MKT])) <= 1)
        /\ \A i \in DOMAIN JuneExpenses :
              \E r \in ResultRows :
                  /\ r.c[MKT] = JuneExpenses[i][MKT]
                  /\ r.c[ActualCol] = JuneExpenses[i][ActualCol]
                  /\ r.c[PRIT \o "_expenses"] = JuneExpenses[i][PRIT]
        /\ \A r \in ResultRows :
              \E i \in DOMAIN JuneExpenses : r.c[MKT] = JuneExpenses[i][MKT]

C2_Witness ==
    /\ screen.view = "results"
    /\ Len(screen.result_df.rows) > Len(JuneExpenses)
    /\ \E i \in DOMAIN JuneExpenses : PriceMatches(JuneExpenses[i][MKT]) = {}

\* C3: in every reconciled row the price delta is actual minus expected
\* when both prices are numbers and is null exactly when one of them is
\* missing; a row with status "match" has delta 0.
C3_PriceDelta ==
    screen.view = "results" =>
        \A r \in ResultRows :
            LET e == r.c[MECHIRON]
                a == r.c[ActualCol]
            IN  /\ (a.k = "num" /\ e.k = "num" => r.c[PAAR_MECHIR] = Num(a.n - e.n))
                /\ (isna(r.c[PAAR_MECHIR]) <=> (isna(a) \/ isna(e)))
                /\ (r.c[STATUS] = Text(MATCH) => r.c[PAAR_MECHIR] = Num(0))

C3_Witness ==
    /\ screen.view = "results"
    /\ \E r \in ResultRows : r.c[STATUS] = Text(MATCH) /\ r.c[PAAR_MECHIR] = Num(0)
    /\ \E r \in ResultRows : r.c[PAAR_MECHIR] = Num(2)
    /\ \E r \in ResultRows : isna(r.c[PAAR_MECHIR])

RECURSIVE JoinedCount(_)
\* The rows a left join yields for a sequence of expense rows
JoinedCount(es) ==
    IF es = <<>> THEN 0
    ELSE (IF PriceMatches(Head(es)[MKT]) = {} THEN 1
          ELSE Cardinality(PriceMatches(Head(es)[MKT]))) + JoinedCount(Tail(es))

\* C8: the rows that reach the join are exactly the expense rows whose date
\* parses to month 6 of any year: every reconciled row is dated in a June,
\* each such expense row is joined (as many rows as a left join of exactly
\* those rows yields), and an unparseable date raises nothing: with numeric
\* or missing prices throughout, the run returns its table.
C8_MonthFilter ==
    /\ screen.view = "results" =>
          /\ \A r \in ResultRows :
                r.c[TAARICH].k = "date" /\ (r.c[TAARICH].n \div 100) % 100 = 6
          /\ \A i \in DOMAIN JuneExpenses :
                \E r \in ResultRows :
                    /\ r.c[MKT] = JuneExpenses[i][MKT]
                    /\ r.c[ActualCol] = JuneExpenses[i][ActualCol]
          /\ Len(screen.result_df.rows) = JoinedCount(JuneExpenses)
    /\ (/\ lastEvent.type = "compare"
        /\ \A i \in DOMAIN expense_file.rows :
              expense_file.rows[i][MECHIR_LIFNEY_MAAM].k # "text"
        /\ \A j \in DOMAIN pricing_file.rows : pricing_file.rows[j][3].k # "text")
       => screen.view = "results"

C8_Witness ==
    /\ screen.view = "results"
    /\ \E i \in DOMAIN expense_file.rows : expense_file.rows[i][TAARICH] = Text("n/a")
    /\ \E r \in ResultRows : r.c[TAARICH] = Date(20230615)

-----------------------------------------------------------------------------
(* Specifications *)

\* The application: a session starts with both uploaders empty
Init ==
    /\ pricing_file = NoPricing
    /\ expense_file = NoExpense
    /\ screen = Blank
    /\ lastEvent = Event("start", DefaultWidgets)

Next ==
    \/ UploadPricing
    \/ UploadExpense
    \/ RemovePricing
    \/ RemoveExpense
    \/ ClickCompare
    \/ ChangeFilter

Spec == Init /\ [][Next]_vars

\* The quick filter alone, over every value its widgets can return
InitFilter ==
    /\ pricing_file = FilterPricingFile
    /\ expense_file \in FilterExpenseFiles
    /\ screen = RunScript(pricing_file, expense_file, FALSE, DefaultWidgets)
    /\ lastEvent = Event("upload", DefaultWidgets)

NextFilter == RunQuickFilter

SpecFilter == InitFilter /\ [][NextFilter]_vars

-----------------------------------------------------------------------------
(* Properties of the application, checked under Spec *)

SkuHeaders == {MKT, MKT_QUOTE, MKT_GERSHAYIM, MKT_GERESH}

\* The terminal conditions, stated on the uploads
UnreadableFile == ~pricing_file.ok \/ ~expense_file.ok
MissingColumn ==
    /\ ~UnreadableFile
    /\ \/ pricing_file.ncols < 3
       \/ TAARICH \notin expense_file.cols
       \/ expense_file.cols \cap SkuHeaders = {}
       \/ expense_file.cols \cap Range(PriceCandidates) = {}
NoRowsInMonth ==
    /\ ~UnreadableFile /\ ~MissingColumn
    /\ JuneExpenses = <<>>

NoArtifact ==
    /\ screen.view = "error" /\ screen.error # ""
    /\ screen.result_df = EmptyDf /\ screen.df_filtered = EmptyDf
    /\ screen.downloads = {} /\ ~screen.message.shown

C4_ReadAndColumnErrors ==
    (lastEvent.type = "compare" /\ (UnreadableFile \/ MissingColumn)) => NoArtifact

Labels(df) == [i \in DOMAIN df.rows |-> df.rows[i].index]

\* C5: with every filter widget at its default the filtered table is the
\* reconciled table: the same rows in the same order.
C5_NoSelectionNoFilter ==
    (screen.view = "results" /\ screen.widgets = DefaultWidgets)
        => Labels(screen.df_filtered) = Labels(screen.result_df)

\* The uploads with every textual price cell emptied
BlankText(c) == IF c.k = "text" THEN Null ELSE c
SanitizedPricing ==
    IF pricing_file.ncols # 3 THEN pricing_file
    ELSE [pricing_file EXCEPT !.rows =
            [i \in DOMAIN pricing_file.rows |->
                [pricing_file.rows[i] EXCEPT ![3] = BlankText(@)]]]
SanitizedExpense ==
    [expense_file EXCEPT !.rows =
        [i \in DOMAIN expense_file.rows |->
            [h \in expense_file.cols |->
                IF h \in Range(PriceCandidates)
                THEN BlankText(expense_file.rows[i][h])
                ELSE expense_file.rows[i][h]]]]

Verdicts(df) ==
    [i \in DOMAIN df.rows |-> <<df.rows[i].c[STATUS], df.rows[i].c[PAAR_MECHIR]>>]

\* C7: a textual price cell never aborts the run: whenever the run over the
\* uploads with those cells emptied returns a table, the run over the
\* uploads themselves returns a table with the same statuses and deltas.
C7_CoercionAbsorbed ==
    LET clean == compare_files(SanitizedPricing, SanitizedExpense, TargetMonth)
    IN  (lastEvent.type = "compare" /\ clean.ok)
            => /\ screen.view = "results"
               /\ Verdicts(screen.result_df) = Verdicts(clean.ordered)

\* The expense upload with its SKU header respelled "mkt"
RespelledExpense ==
    LET old == CHOOSE h \in expense_file.cols : h \in SkuHeaders
        cols == (expense_file.cols \ {old}) \cup {MKT}
    IN  [expense_file EXCEPT
            !.cols = cols,
            !.rows = [i \in DOMAIN expense_file.rows |->
                        [h \in cols |-> IF h = MKT THEN expense_file.rows[i][old]
                                        ELSE expense_file.rows[i][h]]]]

\* C9: an expense log whose SKU header is spelled mkt, mk"t or mk't is
\* handled as the one spelled mkt: the run ends the same way and never
\* with the missing-SKU-column error.
C9_HeaderTolerance ==
    (/\ lastEvent.type = "compare" /\ expense_file.ok
     /\ expense_file.cols \cap {MKT, MKT_QUOTE, MKT_GERESH} # {})
        => /\ screen.error # "missing mkt"
           /\ screen.view =
                RunScript(pricing_file, RespelledExpense, TRUE, DefaultWidgets).view

\* C10: once results are displayed, a change of a filter widget leaves the
\* reconciled table of that run displayed, filtered by the new widget
\* values.
C10_RefilterOnChange ==
    [][(screen.view = "results" /\ lastEvent'.type = "filter")
         => /\ screen'.view = "results"
            /\ screen'.result_df = screen.result_df
            /\ screen'.widgets = lastEvent'.w
            /\ screen'.df_filtered =
                  QuickFilter(screen.result_df, lastEvent'.w,
                              ProdCol(screen.result_df.cols))]_vars

-----------------------------------------------------------------------------
(* Properties of the quick filter, checked under SpecFilter *)

InRange(c, range) == ~isna(c) /\ c.n >= range.lo /\ c.n <= range.hi

\* Row r satisfies every predicate the widget values w make active
Satisfies(r, w, cols) ==
    /\ w.clients # {} => astype_str(r.c[LAKOACH]) \in w.clients
    /\ w.docs # {} => astype_str(r.c[TEUDA]) \in w.docs
    /\ w.statuses # {} => astype_str(r.c[STATUS]) \in w.statuses
    /\ w.serials # {} => astype_str(r.c[MKT]) \in w.serials
    /\ w.date_range.mode = "pair" => InRange(r.c[TAARICH], w.date_range)
    /\ w.sup_range.mode = "pair" => InRange(r.c[ASPAKA], w.sup_range)
    /\ str_strip(w.query) # "" =>
          str_contains(astype_str(r.c[ProdCol(cols)]), str_strip(w.query))

\* The widget values with one active predicate of w (a non-empty
\* selection, a complete date range, a non-blank query) back at its default
Deactivations(w) ==
    {[w EXCEPT !.clients = {}], [w EXCEPT !.docs = {}],
     [w EXCEPT !.statuses = {}], [w EXCEPT !.serials = {}],
     [w EXCEPT !.date_range = IF @.mode = "pair" THEN DefaultRange ELSE @],
     [w EXCEPT !.sup_range = IF @.mode = "pair" THEN DefaultRange ELSE @],
     [w EXCEPT !.query = IF str_strip(@) # "" THEN "" ELSE @]} \ {w}

\* The filtered table is a subsequence of the reconciled table
C6_Subsequence ==
    screen.view = "results" =>
        LET f == screen.df_filtered.rows
        IN  /\ \A i \in DOMAIN f : \A j \in DOMAIN f : i < j => f[i].index < f[j].index
            /\ \A i \in DOMAIN f :
                  \E r \in ResultRows :
                      /\ r.index = f[i].index
                      /\ \A h \in screen.result_df.cols \ {ASPAKA} : r.c[h] = f[i].c[h]

\* Every row of the filtered table satisfies every active predicate
C6_ActivePredicates ==
    screen.view = "results" =>
        \A r \in Range(screen.df_filtered.rows) :
            Satisfies(r, screen.widgets, screen.result_df.cols)

\* Activating one more predicate never yields more rows
C6_Monotone ==
    screen.view = "results" =>
        \A w \in Deactivations(screen.widgets) :
            Len(screen.df_filtered.rows) <=
                Len(QuickFilter(screen.result_df, w, ProdCol(screen.result_df.cols)).rows)

\* C6: for every reconciled table and all widget values the filtered table
\* is a subsequence of the reconciled table, in its order, whose rows all
\* satisfy every active predicate, and activating one more predicate never
\* yields more rows.
C6_FilterNarrows == C6_Subsequence /\ C6_ActivePredicates /\ C6_Monotone

=============================================================================
